---- MODULE Spec2Model ----
(***************************************************************************)
(* Tutorials/overfitting_regularization.ipynb: polynomial least-squares    *)
(* fitting, the train/validation/test split, the two model-selection       *)
(* sweeps and the RMS error.                                                *)
(*                                                                          *)
(* Numbers are exact rationals <<n, d>> (d > 0, lowest terms): the model    *)
(* gives the real-number meaning of the numpy expressions.  IEEE rounding   *)
(* and the rcond cut-off of np.linalg.pinv are not part of it.              *)
(***************************************************************************)
EXTENDS Integers, Sequences, FiniteSets, TLC

(***************************************************************************)
(* Exact rational arithmetic.                                               *)
(***************************************************************************)
Abs(n) == IF n < 0 THEN -n ELSE n

RECURSIVE Gcd(_, _)
Gcd(a, b) == IF b = 0 THEN a ELSE Gcd(b, a % b)

Rat(n, d) ==
    LET g == Gcd(Abs(n), Abs(d))
        s == IF d < 0 THEN -1 ELSE 1
    IN  <<(s * n) \div g, (s * d) \div g>>

R(n) == <<n, 1>>
RAdd(a, b) ==
    LET g == Gcd(a[2], b[2])
    IN  Rat(a[1] * (b[2] \div g) + b[1] * (a[2] \div g), (a[2] \div g) * b[2])
RNeg(a) == <<-a[1], a[2]>>
RSub(a, b) == RAdd(a, RNeg(b))
RMul(a, b) ==
    LET g == Gcd(Abs(a[1]), b[2])
        h == Gcd(Abs(b[1]), a[2])
    IN  <<(a[1] \div g) * (b[1] \div h), (a[2] \div h) * (b[2] \div g)>>
RInv(a) == IF a[1] < 0 THEN <<-a[2], -a[1]>> ELSE <<a[2], a[1]>>
RDiv(a, b) == RMul(a, RInv(b))
RLt(a, b) == a[1] * b[2] < b[1] * a[2]
RLe(a, b) == a[1] * b[2] <= b[1] * a[2]

RECURSIVE RPow(_, _)
RPow(a, j) == IF j = 0 THEN R(1) ELSE RMul(a, RPow(a, j - 1))

RECURSIVE RSum(_)
RSum(s) == IF s = <<>> THEN R(0) ELSE RAdd(s[1], RSum(Tail(s)))

(***************************************************************************)
(* numpy arrays.  A 2-d array keeps its shape, so that an array with no     *)
(* rows still has its columns: [nr, nc, e], e[i][j] the entry.              *)
(***************************************************************************)
RECURSIVE Tabulate(_, _)
Tabulate(f, n) == IF n = 0 THEN <<>> ELSE Append(Tabulate(f, n - 1), f[n])

Mat(nr, nc, F(_, _)) ==
    [nr |-> nr, nc |-> nc,
     e |-> Tabulate([i \in 1..nr |-> Tabulate([j \in 1..nc |-> F(i, j)], nc)], nr)]

Zeros(nr, nc) == Mat(nr, nc, LAMBDA i, j: R(0))
Eye(n) == Mat(n, n, LAMBDA i, j: IF i = j THEN R(1) ELSE R(0))
Column(v) == Mat(Len(v), 1, LAMBDA i, j: v[i])
Ravel(A) ==
    Tabulate([k \in 1..(A.nr * A.nc) |->
                 A.e[((k - 1) \div A.nc) + 1][((k - 1) % A.nc) + 1]], A.nr * A.nc)
Transpose(A) == Mat(A.nc, A.nr, LAMBDA i, j: A.e[j][i])
Dot(A, B) ==
    Mat(A.nr, B.nc, LAMBDA i, j: RSum([k \in 1..A.nc |-> RMul(A.e[i][k], B.e[k][j])]))
MatAdd(A, B) == Mat(A.nr, A.nc, LAMBDA i, j: RAdd(A.e[i][j], B.e[i][j]))
MatSub(A, B) == Mat(A.nr, A.nc, LAMBDA i, j: RSub(A.e[i][j], B.e[i][j]))
Scale(c, A) == Mat(A.nr, A.nc, LAMBDA i, j: RMul(c, A.e[i][j]))
Range(s) == {s[p] : p \in 1..Len(s)}
\* (a variant that leaves the order as it is: the [::-1] forgotten)
Reverse_Forgotten(s) == s
Reverse(s) == Tabulate([k \in 1..Len(s) |-> s[Len(s) + 1 - k]], Len(s))

(***************************************************************************)
(* np.linalg.pinv: the Moore-Penrose pseudo-inverse, computed exactly by    *)
(* Greville's column recursion.  PinvCols(A, k) is the pseudo-inverse of    *)
(* the first k columns of A.  An empty array gives the empty array of the   *)
(* transposed shape.                                                        *)
(***************************************************************************)
FirstCols(A, k) == Mat(A.nr, k, LAMBDA i, j: A.e[i][j])
ColOf(A, k) == Mat(A.nr, 1, LAMBDA i, j: A.e[i][k])
IsZero(A) == \A i \in 1..A.nr: \A j \in 1..A.nc: A.e[i][j] = R(0)
Stack(A, B) == Mat(A.nr + B.nr, A.nc, LAMBDA i, j: IF i <= A.nr THEN A.e[i][j] ELSE B.e[i - A.nr][j])
\* c is the part of column a orthogonal to the columns before it, so that
\* c'c = c'a; the pseudo-inverse of the column c is c'/(c'c).
VecPinv(c, a) ==
    IF IsZero(c) THEN Zeros(1, c.nr)
    ELSE Scale(RInv(Dot(Transpose(c), a).e[1][1]), Transpose(c))

RECURSIVE PinvCols(_, _)
PinvCols(A, k) ==
    IF k = 1 THEN VecPinv(ColOf(A, 1), ColOf(A, 1))
    ELSE LET P == PinvCols(A, k - 1)
             a == ColOf(A, k)
             d == Dot(P, a)
             c == MatSub(a, Dot(FirstCols(A, k - 1), d))
             b == IF IsZero(c)
                  THEN Scale(RInv(RAdd(R(1), Dot(Transpose(d), d).e[1][1])),
                             Dot(Transpose(d), P))
                  ELSE VecPinv(c, a)
         IN  Stack(MatSub(P, Dot(d, b)), b)

pinv(A) == IF A.nr = 0 \/ A.nc = 0 THEN Zeros(A.nc, A.nr) ELSE PinvCols(A, A.nc)

(***************************************************************************)
(* The notebook's functions.                                               *)
(***************************************************************************)
\* np.arange(0, M+1): empty when M+1 <= 0.
arange_len(M) == IF M + 1 > 0 THEN M + 1 ELSE 0

\* (a variant with the powers 1..M+1: no column of ones)
DesignMatrix_PowersFromOne(X, M) ==
    Mat(Len(X), arange_len(M), LAMBDA i, j: RPow(X[i], j))

\* A = np.power(X.reshape(-1,1), np.arange(0,M+1).reshape(1,-1)); x**0 is 1,
\* also for x = 0.
DesignMatrix(X, M) == Mat(Len(X), arange_len(M), LAMBDA i, j: RPow(X[i], j - 1))

\* def polynomial_fit(X,T,M): the coefficients, lowest degree first.
polynomial_fit(X, T, M) ==
    LET A == DesignMatrix(X, M)
        W == Dot(pinv(A), Column(T))
    IN  Ravel(W)

\* (a variant with lamb + N for lamb*N)
polynomial_fit_reg_SumForProduct(X, T, M, lamb) ==
    LET N == Len(X)
        A == DesignMatrix(X, M)
        lambda_matrix == Scale(RAdd(lamb, R(N)), Eye(M + 1))
        aux == pinv(MatAdd(Dot(Transpose(A), A), lambda_matrix))
        aux2 == Dot(Transpose(A), Column(T))
        W == Dot(aux, aux2)
    IN  Ravel(W)

\* def polynomial_fit_reg(X,T,M,lamb)
polynomial_fit_reg(X, T, M, lamb) ==
    LET N == Len(X)
        A == DesignMatrix(X, M)
        lambda_matrix == Scale(RMul(lamb, R(N)), Eye(M + 1))
        aux == pinv(MatAdd(Dot(Transpose(A), A), lambda_matrix))
        aux2 == Dot(Transpose(A), Column(T))
        W == Dot(aux, aux2)
    IN  Ravel(W)

\* np.poly1d(c)(x): Horner's rule, c highest degree first; no coefficient
\* gives the zero polynomial.
RECURSIVE Horner(_, _, _)
Horner(c, x, acc) == IF c = <<>> THEN acc ELSE Horner(Tail(c), x, RAdd(RMul(acc, x), c[1]))
poly1d(c, X) == Tabulate([i \in 1..Len(X) |-> Horner(c, X[i], R(0))], Len(X))

\* np.sqrt of a rational q: the number sqrt(q), kept by its square; nan for
\* q < 0.  sqrt is strictly increasing, so values compare as their squares.
sqrt(q) == [nan |-> RLt(q, R(0)), sq |-> q]

\* (a variant with the factor 2 of the narrative's formula)
rms_error_FactorTwo(X, T, W) ==
    LET T_fit == poly1d(W, X)
        size == Len(T)
        terms == [i \in 1..size |->
                     RDiv(RMul(R(2), RMul(RSub(T[i], T_fit[i]), RSub(T[i], T_fit[i]))),
                          R(size))]
    IN  sqrt(RSum(terms))

\* def rms_error(X,T,W)
rms_error(X, T, W) ==
    LET T_fit == poly1d(W, X)
        size == Len(T)
        terms == [i \in 1..size |->
                     RDiv(RMul(RSub(T[i], T_fit[i]), RSub(T[i], T_fit[i])), R(size))]
    IN  sqrt(RSum(terms))

\* What a call does: a Python exception, or the value returned.  Calls are
\* made with len(X) = len(T); np.eye(n) raises ValueError for n < 0.
Raised(exc) == [kind |-> "raise", exc |-> exc, value |-> <<>>]
Returned(v) == [kind |-> "return", exc |-> "", value |-> v]

call_polynomial_fit(X, T, M) ==
    Returned(polynomial_fit(X, T, M))

call_polynomial_fit_reg(X, T, M, lamb) ==
    IF M + 1 < 0 THEN Raised("ValueError")
    ELSE Returned(polynomial_fit_reg(X, T, M, lamb))

call_rms_error(X, T, W) ==
    Returned(rms_error(X, T, W))


\* np.exp on the integer grid of log-lambda values.  e is irrational: the
\* model takes base 2, which like e gives a positive, strictly increasing
\* function with exp(0) = 1.
RECURSIVE Pow2(_)
Pow2(n) == IF n = 0 THEN 1 ELSE 2 * Pow2(n - 1)
exp(l) == IF l >= 0 THEN R(Pow2(l)) ELSE Rat(1, Pow2(-l))

\* def plotmodel(M): the weights printed and the curve drawn over x_train.
plotmodel(xtr, ytr, M) ==
    LET coefs == Reverse(polynomial_fit(xtr, ytr, M))
    IN  [coefs |-> coefs, y_fit |-> poly1d(coefs, xtr)]

\* def plotmodel2(M,log_lamb)
plotmodel2(xtr, ytr, M, log_lamb) ==
    LET lamb == exp(log_lamb)
        coefs == Reverse(polynomial_fit_reg(xtr, ytr, M, lamb))
    IN  [coefs |-> coefs, lamb |-> lamb, y_fit |-> poly1d(coefs, xtr)]

(***************************************************************************)
(* State.  The notebook's globals, the position in it (pc), and for the     *)
(* functions called on their own the call made and what it gave.            *)
(***************************************************************************)
VARIABLES
    pc,          \* where the notebook stands
    call, ret,   \* a function called on its own: its arguments, its outcome
    indexes,     \* cell 3: the index array being shuffled
    fy_i,        \* np.random.shuffle: the position the next swap fills
    nswaps,      \* the swaps so far that moved something
    aux_train, aux_val, aux_test,   \* the three sorted values of aux
    x_train, y_train, x_val, y_val, x_test, y_test,
    it,          \* iterations of the running sweep completed
    train, val,  \* the error lists (cell 9), the error arrays (cell 15)
    W,           \* the coefficients last evaluated, highest degree first
    best_M, best_M_reg, test_error,
    report,      \* what the print statements of a sweep reported
    reads,       \* the calls of the running sweep: <<function, sample set>>
    runs         \* two runs of cells 1 and 3 from a fresh start

callVars == <<call, ret>>
splitVars == <<indexes, fy_i, nswaps, aux_train, aux_val, aux_test>>
dataVars == <<x_train, y_train, x_val, y_val, x_test, y_test>>
sweepVars == <<it, train, val, W, best_M, best_M_reg, test_error, report, reads>>
vars == <<pc, callVars, splitVars, dataVars, sweepVars, runs>>

None == <<>>

Init ==
    /\ pc = "idle"
    /\ call = None /\ ret = None
    /\ indexes = None /\ fy_i = 0 /\ nswaps = 0
    /\ aux_train = None /\ aux_val = None /\ aux_test = None
    /\ x_train = None /\ y_train = None /\ x_val = None /\ y_val = None
    /\ x_test = None /\ y_test = None
    /\ it = 0 /\ train = None /\ val = None /\ W = None
    /\ best_M = None /\ best_M_reg = None /\ test_error = None
    /\ report = None /\ reads = None
    /\ runs = None

(***************************************************************************)
(* The functions called on their own, on arguments from bounded sets.       *)
(***************************************************************************)
MaxN == 2          \* samples in a call: 0..MaxN
MaxDegree == 2     \* degrees in a call: -2..MaxDegree

XVals == {-1, 0, 1}
TVals == {-1, 0, 1}
WideXVals == {-1, 0, 1, 2, 3}
Lambdas == {R(-1), R(0), Rat(1, 2), R(1)}

Vectors(S, n) == {Tabulate([k \in 1..n |-> R(f[k])], n) : f \in [1..n -> S]}
SampleSets == UNION {Vectors(XVals, n) \X Vectors(TVals, n) : n \in 0..MaxN}
Degrees == (-2)..MaxDegree
Coefficients == UNION {Vectors(TVals, n) : n \in 0..(MaxDegree + 1)}

\* The statement A = np.power(...) that opens both solvers.
BuildDesignMatrix ==
    /\ pc = "idle"
    /\ \E n \in 0..MaxN: \E X \in Vectors(WideXVals, n): \E M \in Degrees:
          /\ call' = [fn |-> "design", X |-> X, M |-> M]
          /\ ret' = Returned(DesignMatrix(X, M))
    /\ pc' = "called"
    /\ UNCHANGED <<splitVars, dataVars, sweepVars, runs>>

CallPolynomialFit ==
    /\ pc = "idle"
    /\ \E s \in SampleSets: \E M \in Degrees:
          /\ call' = [fn |-> "polynomial_fit", X |-> s[1], T |-> s[2], M |-> M]
          /\ ret' = call_polynomial_fit(s[1], s[2], M)
    /\ pc' = "called"
    /\ UNCHANGED <<splitVars, dataVars, sweepVars, runs>>

CallPolynomialFitReg ==
    /\ pc = "idle"
    /\ \E s \in SampleSets: \E M \in Degrees: \E lamb \in Lambdas:
          /\ call' = [fn |-> "polynomial_fit_reg", X |-> s[1], T |-> s[2], M |-> M,
                      lamb |-> lamb]
          /\ ret' = call_polynomial_fit_reg(s[1], s[2], M, lamb)
    /\ pc' = "called"
    /\ UNCHANGED <<splitVars, dataVars, sweepVars, runs>>

CallRmsError ==
    /\ pc = "idle"
    /\ \E s \in SampleSets: \E c \in Coefficients:
          /\ call' = [fn |-> "rms_error", X |-> s[1], T |-> s[2], W |-> c]
          /\ ret' = call_rms_error(s[1], s[2], c)
    /\ pc' = "called"
    /\ UNCHANGED <<splitVars, dataVars, sweepVars, runs>>

NextCalls ==
    \/ BuildDesignMatrix
    \/ CallPolynomialFit
    \/ CallPolynomialFitReg
    \/ CallRmsError

SpecCalls == Init /\ [][NextCalls]_vars

(***************************************************************************)
(* Claims about the functions called on their own (SpecCalls).              *)
(***************************************************************************)
Called(fn) == pc = "called" /\ call.fn = fn

\* sum over j of c[j] * x^(n-j) for c = c[1..n], highest degree first, by powers
HighFirstValue(c, x) ==
    RSum([k \in 1..Len(c) |-> RMul(c[k], RPow(x, Len(c) - k))])
Residual(X, T, c, i) == RSub(T[i], HighFirstValue(c, X[i]))
SumSquares(X, T, c) ==
    RSum([i \in 1..Len(X) |-> RMul(Residual(X, T, c, i), Residual(X, T, c, i))])

\* C2: for N inputs and a degree M >= 0 the design matrix has N rows and M+1
\* columns, column 0 is all ones (also where the input is 0), each further
\* column is the one before it times the input, so entry (i,j) is X[i]^j; and
\* X = [2,3], M = 2 gives [[1,2,4],[1,3,9]].
ThmC2_DesignMatrixShapeAndPowers ==
    (Called("design") /\ call.M >= 0) =>
        LET A == ret.value IN
        /\ ret.kind = "return"
        /\ A.nr = Len(call.X) /\ A.nc = call.M + 1
        /\ Len(A.e) = Len(call.X)
        /\ \A i \in 1..A.nr:
              /\ Len(A.e[i]) = call.M + 1
              /\ A.e[i][1] = R(1)
              /\ \A j \in 1..call.M: A.e[i][j + 1] = RMul(A.e[i][j], call.X[i])
        /\ (call.X = <<R(2), R(3)>> /\ call.M = 2) =>
              A.e = <<<<R(1), R(2), R(4)>>, <<R(1), R(3), R(9)>>>>

WitC2_TwoThreeSquared ==
    /\ Called("design") /\ call.X = <<R(2), R(3)>> /\ call.M = 2
    /\ ret.value.e = <<<<R(1), R(2), R(4)>>, <<R(1), R(3), R(9)>>>>

\* C5: rms_error returns a number that is not nan and not negative; it is 0
\* exactly when every residual T[i] - p(X[i]) is 0; and its square times the
\* number of samples is the sum of the squared residuals (a plain mean, no
\* factor 2).
ThmC5_RmsPlainMeanZeroIffExact ==
    Called("rms_error") =>
        LET E == ret.value IN
        /\ ret.kind = "return"
        /\ ~E.nan /\ RLe(R(0), E.sq)
        /\ (E.sq = R(0)) <=>
              (\A i \in 1..Len(call.X): Residual(call.X, call.T, call.W, i) = R(0))
        /\ RMul(E.sq, R(Len(call.T))) = SumSquares(call.X, call.T, call.W)

WitC5_ExactFitOfNonZeroTargets ==
    /\ Called("rms_error") /\ Len(call.X) = 2 /\ Len(call.W) = 2
    /\ call.T[1] # call.T[2]
    /\ ret.value.sq = R(0)

\* C6 (as claimed): a solver or the evaluator called with empty sample sets
\* fails with InvalidInput.
CexC6_EmptySamplesRaiseInvalidInput ==
    (/\ pc = "called"
     /\ call.fn \in {"polynomial_fit", "polynomial_fit_reg", "rms_error"}
     /\ Len(call.X) = 0)
        => (ret.kind = "raise" /\ ret.exc = "InvalidInput")

\* C7 (as claimed): a solver called with a negative degree, or the regularized
\* solver with a negative lambda, fails with InvalidParameter and returns no
\* coefficient vector.
CexC7_NegativeParameterRaisesInvalidParameter ==
    (/\ pc = "called"
     /\ call.fn \in {"polynomial_fit", "polynomial_fit_reg"}
     /\ \/ call.M < 0
        \/ (call.fn = "polynomial_fit_reg" /\ RLt(call.lamb, R(0))))
        => (ret.kind = "raise" /\ ret.exc = "InvalidParameter")

N == 25
train_size == 10
val_size == 5
test_size == 10
MaxSwaps == 1      \* swaps of the shuffle that move something

arange(n) == Tabulate([k \in 1..n |-> k - 1], n)

\* s[a:b], 0 <= a, 0 <= b, and s[-n:], n >= 0 (s[-0:] is all of s)
Slice(s, a, b) ==
    LET hi == IF b < Len(s) THEN b ELSE Len(s)
    IN  IF a >= hi THEN <<>> ELSE Tabulate([k \in 1..(hi - a) |-> s[a + k]], hi - a)
LastSlice(s, n) ==
    IF n = 0 \/ n >= Len(s) THEN s ELSE Slice(s, Len(s) - n, Len(s))

\* np.sort
RECURSIVE Insert(_, _)
Insert(s, v) ==
    IF s = <<>> THEN <<v>>
    ELSE IF v <= s[1] THEN <<v>> \o s ELSE <<s[1]>> \o Insert(Tail(s), v)
RECURSIVE np_sort(_)
np_sort(s) == IF s = <<>> THEN <<>> ELSE Insert(np_sort(Tail(s)), s[1])

\* x = np.linspace(0, 1, N); y = y_noiseless + noise, a value the model leaves
\* uninterpreted: the k-th measurement.
x_at(k) == Rat(k, N - 1)
y_at(k) == <<"y", k>>
Take(F(_), aux) == Tabulate([p \in 1..Len(aux) |-> F(aux[p])], Len(aux))

\* indexes = np.arange(N); np.random.seed(seed = 2)
StartShuffle ==
    /\ pc = "idle"
    /\ indexes' = arange(N)
    /\ fy_i' = N - 1
    /\ pc' = "shuffle"
    /\ UNCHANGED <<nswaps, aux_train, aux_val, aux_test>>
    /\ UNCHANGED <<callVars, dataVars, sweepVars, runs>>

\* np.random.shuffle(indexes): for i = n-1 down to 1, swap position i with a
\* random position j <= i.  Any j may be drawn.
ShuffleStep ==
    /\ pc = "shuffle" /\ fy_i >= 1
    /\ \E j \in 0..fy_i:
          /\ j # fy_i => nswaps < MaxSwaps
          /\ indexes' = [indexes EXCEPT ![fy_i + 1] = indexes[j + 1],
                                        ![j + 1] = indexes[fy_i + 1]]
          /\ nswaps' = IF j # fy_i THEN nswaps + 1 ELSE nswaps
    /\ fy_i' = fy_i - 1
    /\ UNCHANGED <<pc, aux_train, aux_val, aux_test>>
    /\ UNCHANGED <<callVars, dataVars, sweepVars, runs>>

TrainSlice(s) == Slice(s, 0, train_size)
ValSlice(s) == Slice(s, train_size, train_size + val_size)
\* (a variant that counts the test slice from the end of the train slice)
TestSlice_AfterTrain(s) == Slice(s, train_size, train_size + test_size)
TestSlice(s) == LastSlice(s, test_size)

\* the three blocks "aux = indexes[...]; aux = np.sort(aux); x_.. = x[aux]"
Split ==
    /\ pc = "shuffle" /\ fy_i = 0
    /\ aux_train' = np_sort(TrainSlice(indexes))
    /\ aux_val' = np_sort(ValSlice(indexes))
    /\ aux_test' = np_sort(TestSlice(indexes))
    /\ x_train' = Take(x_at, aux_train') /\ y_train' = Take(y_at, aux_train')
    /\ x_val' = Take(x_at, aux_val') /\ y_val' = Take(y_at, aux_val')
    /\ x_test' = Take(x_at, aux_test') /\ y_test' = Take(y_at, aux_test')
    /\ pc' = "split"
    /\ UNCHANGED <<indexes, fy_i, nswaps>>
    /\ UNCHANGED <<callVars, sweepVars, runs>>

NextSplit == StartShuffle \/ ShuffleStep \/ Split

SpecSplit == Init /\ [][NextSplit]_vars

\* C3: whatever order the shuffle leaves, the train, validation and test index
\* sets have 10, 5 and 10 members, are pairwise disjoint, and together hold
\* every index 0..24 exactly once.
ThmC3_SplitPartitionsIndexes ==
    pc = "split" =>
        /\ Len(aux_train) = 10 /\ Cardinality(Range(aux_train)) = 10
        /\ Len(aux_val) = 5 /\ Cardinality(Range(aux_val)) = 5
        /\ Len(aux_test) = 10 /\ Cardinality(Range(aux_test)) = 10
        /\ Range(aux_train) \cap Range(aux_val) = {}
        /\ Range(aux_train) \cap Range(aux_test) = {}
        /\ Range(aux_val) \cap Range(aux_test) = {}
        /\ Range(aux_train) \cup Range(aux_val) \cup Range(aux_test) = 0..24

WitC3_ShuffledSplit ==
    /\ pc = "split" /\ nswaps > 0
    /\ 24 \in Range(aux_train) /\ 0 \in Range(aux_test)


(***************************************************************************)
(* Cells 7, 9, 13 and 15: the plot callbacks and the two model-selection    *)
(* sweeps.  Exact arithmetic on the notebook's 25 points and degrees up to  *)
(* 9 leaves TLC's integers, so the data set is scaled down to three points  *)
(* (one train, one validation, one test: x = np.linspace(0, 1, 3)) with     *)
(* targets from YVals, and the grids to NumDegrees degrees and NumLogLamb   *)
(* values of log-lambda.                                                    *)
(***************************************************************************)
NumDegrees == 3        \* m = range(10): the degrees 0..NumDegrees-1
NumRegDegrees == 2     \* M = range(7,10): the last NumRegDegrees of them
NumLogLamb == 3        \* log_lamb = range(-40,-8): the NumLogLamb values up to -1

SweepSizes == [train |-> 1, val |-> 1, test |-> 1]
SweepN == SweepSizes.train + SweepSizes.val + SweepSizes.test
linspace01(n) == Tabulate([k \in 1..n |-> Rat(k - 1, n - 1)], n)
SweepX == linspace01(SweepN)
YVals == {-1, 0, 1, 2}
SweepIndexes == 0..(SweepN - 1)

\* the sorted index arrays a shuffle and split of the points can give
SweepSplits ==
    {sp \in [train : SUBSET SweepIndexes, val : SUBSET SweepIndexes,
             test : SUBSET SweepIndexes] :
        /\ Cardinality(sp.train) = SweepSizes.train
        /\ Cardinality(sp.val) = SweepSizes.val
        /\ Cardinality(sp.test) = SweepSizes.test
        /\ sp.train \cup sp.val \cup sp.test = SweepIndexes}

log_lamb == Tabulate([j \in 1..NumLogLamb |-> j - 1 - NumLogLamb], NumLogLamb)

RECURSIVE SortedSeq(_)
SortedSeq(S) ==
    IF S = {} THEN <<>>
    ELSE LET lo == CHOOSE v \in S: \A w \in S: v <= w
         IN  <<lo>> \o SortedSeq(S \ {lo})

m_range == arange(NumDegrees)
reg_M == Tabulate([i \in 1..NumRegDegrees |-> NumDegrees - NumRegDegrees + i - 1],
                  NumRegDegrees)

\* An error value: np.zeros gives 0.0; values order as their squares.
zero == sqrt(R(0))
IsLess(a, b) == RLt(a.sq, b.sq)

\* np.argmin of a 1-d array: the first nan if there is one, else the first
\* place of the least value; 0-based.
np_argmin(s) ==
    LET nans == {k \in 1..Len(s) : s[k].nan}
        least == {k \in 1..Len(s) : \A q \in 1..Len(s) : ~IsLess(s[q], s[k])}
        first(S) == CHOOSE k \in S : \A q \in S : k <= q
    IN  (IF nans # {} THEN first(nans) ELSE first(least)) - 1

\* a 2-d array of errors is the sequence of its rows; a.argmin() takes the
\* array flattened row by row, np.unravel_index gives back (row, column).
RECURSIVE flatten(_)
flatten(a) == IF a = <<>> THEN <<>> ELSE a[1] \o flatten(Tail(a))
shape(a) == <<Len(a), IF a = <<>> THEN 0 ELSE Len(a[1])>>
\* (a variant that unravels column by column)
unravel_index_ColumnMajor(k, shp) == <<k % shp[1], k \div shp[1]>>
unravel_index(k, shp) == <<k \div shp[2], k % shp[2]>>
np_zeros(nr, nc) == Tabulate([r \in 1..nr |-> Tabulate([c \in 1..nc |-> zero], nc)], nr)

\* cells 1 and 3, on the three points: the samples a run can be left with
LoadData ==
    /\ pc = "idle"
    /\ \E sp \in SweepSplits: \E ys \in [SweepIndexes -> YVals]:
          LET xs(k) == SweepX[k + 1]
              yv(k) == R(ys[k])
          IN  /\ x_train' = Take(xs, SortedSeq(sp.train))
              /\ y_train' = Take(yv, SortedSeq(sp.train))
              /\ x_val' = Take(xs, SortedSeq(sp.val))
              /\ y_val' = Take(yv, SortedSeq(sp.val))
              /\ x_test' = Take(xs, SortedSeq(sp.test))
              /\ y_test' = Take(yv, SortedSeq(sp.test))
    /\ pc' = "loaded"
    /\ UNCHANGED <<callVars, splitVars, sweepVars, runs>>

\* interact(plotmodel, M=(0,9,1)) and interact(plotmodel2, M=(0,9,1),
\* log_lamb=(-40,-9,.1)): a slider calls back with a degree of the range (and
\* a log-lambda of it; the slider moves in steps of 0.1, the model takes the
\* whole values of the grid).  A callback draws and prints and assigns no
\* global: the cells that follow run as if it had not been called.
PlotModel ==
    /\ pc = "loaded"
    /\ \E M \in 0..(NumDegrees - 1):
          /\ call' = [fn |-> "plotmodel", M |-> M]
          /\ ret' = Returned(plotmodel(x_train, y_train, M))
    /\ pc' = "called"
    /\ UNCHANGED <<splitVars, dataVars, sweepVars, runs>>

PlotModel2 ==
    /\ pc = "loaded"
    /\ \E M \in 0..(NumDegrees - 1): \E l \in Range(log_lamb):
          /\ call' = [fn |-> "plotmodel2", M |-> M, log_lamb |-> l]
          /\ ret' = Returned(plotmodel2(x_train, y_train, M, l))
    /\ pc' = "called"
    /\ UNCHANGED <<splitVars, dataVars, sweepVars, runs>>

\* cell 9 up to its loop: m = range(10); train = []; val = []
Sweep1Start ==
    /\ pc = "loaded"
    /\ train' = <<>> /\ val' = <<>> /\ it' = 0 /\ reads' = <<>>
    /\ pc' = "sweep1"
    /\ UNCHANGED <<W, best_M, best_M_reg, test_error, report>>
    /\ UNCHANGED <<callVars, splitVars, dataVars, runs>>

\* the body of "for M in m", cell 9
Sweep1Body ==
    /\ pc = "sweep1" /\ it < Len(m_range)
    /\ LET M == m_range[it + 1]
           W1 == Reverse(polynomial_fit(x_train, y_train, M))
           error_train == rms_error(x_train, y_train, W1)
           error_val == rms_error(x_val, y_val, W1)
       IN  /\ W' = W1
           /\ train' = Append(train, error_train)
           /\ val' = Append(val, error_val)
    /\ reads' = reads \o <<<<"polynomial_fit", "train">>, <<"rms_error", "train">>,
                           <<"rms_error", "val">>>>
    /\ it' = it + 1
    /\ UNCHANGED <<pc, best_M, best_M_reg, test_error, report>>
    /\ UNCHANGED <<callVars, splitVars, dataVars, runs>>

\* (a variant that selects on the test error of every degree)
Select1_OnTestError ==
    /\ pc = "sweep1" /\ it = Len(m_range)
    /\ best_M' = np_argmin(Tabulate(
           [k \in 1..Len(m_range) |->
               rms_error(x_test, y_test,
                         Reverse(polynomial_fit(x_train, y_train, m_range[k])))],
           Len(m_range)))
    /\ reads' = reads \o <<<<"rms_error", "test">>, <<"argmin", "test">>>>
    /\ pc' = "selected1"
    /\ UNCHANGED <<it, train, val, W, best_M_reg, test_error, report>>
    /\ UNCHANGED <<callVars, splitVars, dataVars, runs>>

\* best_M = np.argmin(val)
Select1 ==
    /\ pc = "sweep1" /\ it = Len(m_range)
    /\ best_M' = np_argmin(val)
    /\ reads' = Append(reads, <<"argmin", "val">>)
    /\ pc' = "selected1"
    /\ UNCHANGED <<it, train, val, W, best_M_reg, test_error, report>>
    /\ UNCHANGED <<callVars, splitVars, dataVars, runs>>

\* the fit of the selected degree, its test error, and the two prints
Test1 ==
    /\ pc = "selected1"
    /\ W' = Reverse(polynomial_fit(x_train, y_train, best_M))
    /\ test_error' = rms_error(x_test, y_test, W')
    /\ report' = [degree |-> best_M, test_error |-> test_error']
    /\ reads' = reads \o <<<<"polynomial_fit", "train">>, <<"rms_error", "test">>>>
    /\ pc' = "done1"
    /\ UNCHANGED <<it, train, val, best_M, best_M_reg>>
    /\ UNCHANGED <<callVars, splitVars, dataVars, runs>>

\* cell 15 up to its loops
Sweep2Start ==
    /\ pc = "done1"
    /\ train' = np_zeros(Len(log_lamb), Len(reg_M))
    /\ val' = np_zeros(Len(log_lamb), Len(reg_M))
    /\ it' = 0 /\ reads' = <<>>
    /\ pc' = "sweep2"
    /\ UNCHANGED <<W, best_M, best_M_reg, test_error, report>>
    /\ UNCHANGED <<callVars, splitVars, dataVars, runs>>

\* the body of "for (i,m) in enumerate(M): for (j,l) in enumerate(log_lamb)"
Sweep2Body ==
    /\ pc = "sweep2" /\ it < Len(reg_M) * Len(log_lamb)
    /\ LET i == it \div Len(log_lamb)
           j == it % Len(log_lamb)
           lamb == exp(log_lamb[j + 1])
           coeffs == Reverse(polynomial_fit_reg(x_train, y_train, reg_M[i + 1], lamb))
       IN  /\ train' = [train EXCEPT ![j + 1][i + 1] = rms_error(x_train, y_train, coeffs)]
           /\ val' = [val EXCEPT ![j + 1][i + 1] = rms_error(x_val, y_val, coeffs)]
    /\ reads' = reads \o <<<<"polynomial_fit_reg", "train">>, <<"rms_error", "train">>,
                           <<"rms_error", "val">>>>
    /\ it' = it + 1
    /\ UNCHANGED <<pc, W, best_M, best_M_reg, test_error, report>>
    /\ UNCHANGED <<callVars, splitVars, dataVars, runs>>

\* best_M_reg = np.unravel_index(val.argmin(), val.shape)
Select2 ==
    /\ pc = "sweep2" /\ it = Len(reg_M) * Len(log_lamb)
    /\ best_M_reg' = unravel_index(np_argmin(flatten(val)), shape(val))
    /\ reads' = Append(reads, <<"argmin", "val">>)
    /\ pc' = "selected2"
    /\ UNCHANGED <<it, train, val, W, best_M, test_error, report>>
    /\ UNCHANGED <<callVars, splitVars, dataVars, runs>>

SelectedDegree(best) == reg_M[best[2] + 1]
SelectedLambda(best) == exp(log_lamb[best[1] + 1])

Test2 ==
    /\ pc = "selected2"
    /\ W' = Reverse(polynomial_fit_reg(x_train, y_train, SelectedDegree(best_M_reg),
                                       SelectedLambda(best_M_reg)))
    /\ test_error' = rms_error(x_test, y_test, W')
    /\ report' = [degree |-> SelectedDegree(best_M_reg),
                  lamb |-> SelectedLambda(best_M_reg), test_error |-> test_error']
    /\ reads' = reads \o <<<<"polynomial_fit_reg", "train">>, <<"rms_error", "test">>>>
    /\ pc' = "done2"
    /\ UNCHANGED <<it, train, val, best_M, best_M_reg>>
    /\ UNCHANGED <<callVars, splitVars, dataVars, runs>>

NextSweep ==
    \/ LoadData
    \/ PlotModel
    \/ PlotModel2
    \/ Sweep1Start
    \/ Sweep1Body
    \/ Select1
    \/ Test1
    \/ Sweep2Start
    \/ Sweep2Body
    \/ Select2
    \/ Test2

SpecSweep == Init /\ [][NextSweep]_vars

(***************************************************************************)
(* Claims about the sweeps and the plot callbacks.                          *)
(***************************************************************************)
\* the value of the polynomial with coefficients w, lowest degree first, at x
AscendingValue(w, x) ==
    RSum([j \in 1..Len(w) |-> RMul(w[j], RPow(x, j - 1))])
\* the mean over the samples of the squared residual of that polynomial
MeanSquare(X, T, w) ==
    RDiv(RSum([i \in 1..Len(X) |->
                  RMul(RSub(T[i], AscendingValue(w, X[i])),
                       RSub(T[i], AscendingValue(w, X[i])))]),
         R(Len(T)))
\* an error value that is the root of q
IsRootOf(E, q) == ~E.nan /\ E.sq = q

Grid2 == (1..Len(log_lamb)) \X (1..Len(reg_M))
RegFit(g) == polynomial_fit_reg(x_train, y_train, reg_M[g[2]], exp(log_lamb[g[1]]))
LeastOfGrid2(g) == \A h \in Grid2: RLe(val[g[1]][g[2]].sq, val[h[1]][h[2]].sq)

\* C1: in both sweeps every grid entry holds the validation RMS of the fit of
\* its hyperparameters on the training set, and the degree reported (in the
\* regularized sweep the degree and lambda, read back from the argmin index) is
\* that of an entry whose validation RMS is at most that of every entry.
ThmC1_SelectedEntryHasLeastValidationError ==
    /\ pc \in {"selected1", "done1"} =>
          /\ Len(val) = Len(m_range)
          /\ \A k \in 1..Len(val):
                IsRootOf(val[k], MeanSquare(x_val, y_val,
                            polynomial_fit(x_train, y_train, m_range[k])))
          /\ best_M \in 0..(Len(val) - 1)
          /\ \A k \in 1..Len(val): RLe(val[best_M + 1].sq, val[k].sq)
          /\ pc = "done1" => report.degree = m_range[best_M + 1]
    /\ pc \in {"selected2", "done2"} =>
          /\ shape(val) = <<Len(log_lamb), Len(reg_M)>>
          /\ \A g \in Grid2:
                IsRootOf(val[g[1]][g[2]], MeanSquare(x_val, y_val, RegFit(g)))
          /\ \E g \in Grid2: best_M_reg = <<g[1] - 1, g[2] - 1>> /\ LeastOfGrid2(g)
          /\ pc = "done2" =>
                \E g \in Grid2: /\ best_M_reg = <<g[1] - 1, g[2] - 1>>
                                /\ report.degree = reg_M[g[2]]
                                /\ report.lamb = exp(log_lamb[g[1]])
                                /\ LeastOfGrid2(g)

\* both sweeps done, each with one entry strictly below all others, the
\* regularized one off the diagonal of the grid
WitC1_StrictMinimaOffDiagonal ==
    /\ pc = "done2"
    /\ best_M_reg[1] # best_M_reg[2]
    /\ \A h \in Grid2:
          h # <<best_M_reg[1] + 1, best_M_reg[2] + 1>> =>
              RLt(val[best_M_reg[1] + 1][best_M_reg[2] + 1].sq, val[h[1]][h[2]].sq)
    /\ best_M # 0

TestReads == {k \in 1..Len(reads) : reads[k][2] = "test"}
\* the selections as functions of the train and validation samples alone
Selection1(xtr, ytr, xv, yv) ==
    np_argmin(Tabulate([k \in 1..Len(m_range) |->
                           sqrt(MeanSquare(xv, yv, polynomial_fit(xtr, ytr, m_range[k])))],
                       Len(m_range)))
Selection2(xtr, ytr, xv, yv) ==
    LET score(j, i) == sqrt(MeanSquare(xv, yv,
                              polynomial_fit_reg(xtr, ytr, reg_M[i], exp(log_lamb[j]))))
        table == Tabulate([j \in 1..Len(log_lamb) |->
                              Tabulate([i \in 1..Len(reg_M) |-> score(j, i)], Len(reg_M))],
                          Len(log_lamb))
    IN  unravel_index(np_argmin(flatten(table)), shape(table))

\* C4: while a sweep runs and selects, nothing reads the test set; a finished
\* sweep has read it once, in the rms_error call that ends it, after the
\* argmin; the test error is the RMS on the test set of the fit on the training
\* set with the selected hyperparameters; and the selection is a function of the
\* train and validation samples alone.
ThmC4_TestSetScoredOnceAfterSelection ==
    /\ pc \in {"sweep1", "selected1", "sweep2", "selected2"} => TestReads = {}
    /\ pc \in {"selected1", "done1"} =>
          best_M = Selection1(x_train, y_train, x_val, y_val)
    /\ pc \in {"selected2", "done2"} =>
          best_M_reg = Selection2(x_train, y_train, x_val, y_val)
    /\ pc \in {"done1", "done2"} =>
          /\ TestReads = {Len(reads)}
          /\ reads[Len(reads)] = <<"rms_error", "test">>
          /\ \E k \in 1..(Len(reads) - 1): reads[k][1] = "argmin"
          /\ \A k \in 1..Len(reads):
                reads[k][1] \in {"polynomial_fit", "polynomial_fit_reg"}
                    => reads[k][2] = "train"
          /\ report.test_error = test_error
    /\ pc = "done1" =>
          IsRootOf(test_error, MeanSquare(x_test, y_test,
                      polynomial_fit(x_train, y_train, best_M)))
    /\ pc = "done2" =>
          IsRootOf(test_error, MeanSquare(x_test, y_test,
                      polynomial_fit_reg(x_train, y_train, reg_M[best_M_reg[2] + 1],
                                         exp(log_lamb[best_M_reg[1] + 1]))))

\* the first sweep done: a degree above 0 selected whose test error is neither 0
\* nor the validation error it was selected for
WitC4_TestErrorOfSelectedDegree ==
    /\ pc = "done1" /\ best_M > 0
    /\ test_error.sq # R(0)
    /\ test_error # val[best_M + 1]
    /\ Len(reads) = 3 * Len(m_range) + 3

\* the normal equations of the least-squares problem whose unknown w[j+1]
\* multiplies x^j: for each j in 0..M, sum_i x_i^j (p_w(x_i) - t_i) + mu w[j+1] = 0
NormalEquations(X, T, M, mu, w) ==
    \A j \in 0..M:
        RAdd(RSum([i \in 1..Len(X) |->
                      RMul(RPow(X[i], j), RSub(AscendingValue(w, X[i]), T[i]))]),
             RMul(mu, w[j + 1])) = R(0)
\* row i of the design matrix times w
RowTimes(X, M, w, i) == Dot(DesignMatrix(X, M), Column(w)).e[i][1]
\* the entries of the regularized grid filled after n iterations
Filled2(n) == {g \in Grid2 : (g[2] - 1) * Len(log_lamb) + (g[1] - 1) < n}

\* C9: a solver called with a degree M >= 0 returns M+1 coefficients, the one
\* at place j+1 being that of x^j (they solve the normal equations written
\* that way; for the regularized solver with lambda >= 0); and what plotmodel,
\* plotmodel2, the entries of both sweeps and both test errors evaluate at x is
\* the sum over j of W[j] x^j for the W the solver returned, which is the
\* design-matrix row of x times W.
ThmC9_SolverOrderAscendingEvaluatedAscending ==
    /\ (Called("polynomial_fit") /\ call.M >= 0) =>
          /\ ret.kind = "return" /\ Len(ret.value) = call.M + 1
          /\ NormalEquations(call.X, call.T, call.M, R(0), ret.value)
    /\ (Called("polynomial_fit_reg") /\ call.M >= 0) =>
          /\ ret.kind = "return" /\ Len(ret.value) = call.M + 1
          /\ RLe(R(0), call.lamb) =>
                NormalEquations(call.X, call.T, call.M,
                                RMul(call.lamb, R(Len(call.X))), ret.value)
    /\ Called("plotmodel") =>
          LET w == polynomial_fit(x_train, y_train, call.M) IN
          /\ Len(ret.value.coefs) = call.M + 1
          /\ Len(ret.value.y_fit) = Len(x_train)
          /\ \A i \in 1..Len(x_train):
                /\ ret.value.y_fit[i] = AscendingValue(w, x_train[i])
                /\ ret.value.y_fit[i] = RowTimes(x_train, call.M, w, i)
    /\ Called("plotmodel2") =>
          LET w == polynomial_fit_reg(x_train, y_train, call.M, exp(call.log_lamb)) IN
          /\ Len(ret.value.coefs) = call.M + 1
          /\ Len(ret.value.y_fit) = Len(x_train)
          /\ \A i \in 1..Len(x_train):
                /\ ret.value.y_fit[i] = AscendingValue(w, x_train[i])
                /\ ret.value.y_fit[i] = RowTimes(x_train, call.M, w, i)
    /\ pc \in {"sweep1", "selected1", "done1"} =>
          \A k \in 1..Len(train):
              LET w == polynomial_fit(x_train, y_train, m_range[k]) IN
              /\ IsRootOf(train[k], MeanSquare(x_train, y_train, w))
              /\ IsRootOf(val[k], MeanSquare(x_val, y_val, w))
    /\ pc \in {"sweep2", "selected2", "done2"} =>
          \A g \in Filled2(it):
              /\ IsRootOf(train[g[1]][g[2]], MeanSquare(x_train, y_train, RegFit(g)))
              /\ IsRootOf(val[g[1]][g[2]], MeanSquare(x_val, y_val, RegFit(g)))
    /\ pc = "done1" =>
          IsRootOf(test_error, MeanSquare(x_test, y_test,
                      polynomial_fit(x_train, y_train, report.degree)))
    /\ pc = "done2" =>
          IsRootOf(test_error, MeanSquare(x_test, y_test,
                      polynomial_fit_reg(x_train, y_train, report.degree, report.lamb)))

\* plotmodel2 on a degree-2 fit whose first and last coefficient differ
WitC9_AsymmetricCoefficientsPlotted ==
    /\ Called("plotmodel2") /\ call.M = 2
    /\ ret.value.coefs[1] # ret.value.coefs[3]
    /\ ret.value.y_fit[1] # R(0)

(***************************************************************************)
(* Two runs of cells 1, 3 and 9 from a fresh start, side by side.  numpy's   *)
(* global generator is a deterministic function of its state; a fresh        *)
(* interpreter seeds it from the operating system.  The generator here is    *)
(* a small one: what matters is which state each draw is made from.          *)
(***************************************************************************)
NumEntropy == 3    \* states a freshly started generator can be in: 0..NumEntropy-1

rng_next(s) == (5 * s + 3) % 16
rng_seed(n) == (7 * n + 1) % 16

\* np.random.normal(0, var, n): n draws, each a noise level read off the state
RECURSIVE random_normal(_, _)
random_normal(s, n) ==
    IF n = 0 THEN [values |-> <<>>, rng |-> s]
    ELSE LET rest == random_normal(rng_next(s), n - 1)
         IN  [values |-> <<R((s % 3) - 1)>> \o rest.values, rng |-> rest.rng]

\* np.random.shuffle(a): for i = n-1 down to 1, swap a[i] with a[j], j drawn
\* from 0..i
RECURSIVE random_shuffle(_, _, _)
random_shuffle(a, i, s) ==
    IF i < 1 THEN [values |-> a, rng |-> s]
    ELSE LET j == s % (i + 1)
         IN  random_shuffle([a EXCEPT ![i + 1] = a[j + 1], ![j + 1] = a[i + 1]],
                            i - 1, rng_next(s))

\* y_noiseless = np.sin(2*np.pi*x): at the three points 0, 1/2, 1 it is 0
y_noiseless == Tabulate([k \in 1..SweepN |-> R(0)], SweepN)

FreshRun(e) ==
    [pc |-> "fresh", rng |-> e, y |-> None, indexes |-> None,
     x_train |-> None, y_train |-> None, x_val |-> None, y_val |-> None,
     x_test |-> None, y_test |-> None, report |-> None]

\* two interpreters start
FreshStart ==
    /\ pc = "idle"
    /\ \E e1 \in 0..(NumEntropy - 1): \E e2 \in 0..(NumEntropy - 1):
          runs' = <<FreshRun(e1), FreshRun(e2)>>
    /\ pc' = "runs"
    /\ UNCHANGED <<callVars, splitVars, dataVars, sweepVars>>

\* cell 1: y = y_noiseless + np.random.normal(0, var, N)
RunCell1(r) ==
    /\ pc = "runs" /\ runs[r].pc = "fresh"
    /\ LET noise == random_normal(runs[r].rng, SweepN)
           y == Tabulate([k \in 1..SweepN |-> RAdd(y_noiseless[k], noise.values[k])],
                         SweepN)
       IN  runs' = [runs EXCEPT ![r].y = y, ![r].rng = noise.rng, ![r].pc = "cell1"]
    /\ UNCHANGED <<pc, callVars, splitVars, dataVars, sweepVars>>

\* cell 3: the seed, the shuffle and the three sorted slices
RunCell3(r) ==
    /\ pc = "runs" /\ runs[r].pc = "cell1"
    /\ LET shuffled == random_shuffle(arange(SweepN), SweepN - 1, rng_seed(2))
           idx == shuffled.values
           tr == np_sort(Slice(idx, 0, SweepSizes.train))
           va == np_sort(Slice(idx, SweepSizes.train, SweepSizes.train + SweepSizes.val))
           te == np_sort(LastSlice(idx, SweepSizes.test))
           xs(k) == SweepX[k + 1]
           ys(k) == runs[r].y[k + 1]
       IN  runs' = [runs EXCEPT ![r].indexes = idx, ![r].rng = shuffled.rng,
                                ![r].x_train = Take(xs, tr), ![r].y_train = Take(ys, tr),
                                ![r].x_val = Take(xs, va), ![r].y_val = Take(ys, va),
                                ![r].x_test = Take(xs, te), ![r].y_test = Take(ys, te),
                                ![r].pc = "cell3"]
    /\ UNCHANGED <<pc, callVars, splitVars, dataVars, sweepVars>>

\* cell 9, in one step: the sweep, the selection, the test error, the prints
RunCell9(r) ==
    /\ pc = "runs" /\ runs[r].pc = "cell3"
    /\ \E best \in {np_argmin(Tabulate(
                       [k \in 1..Len(m_range) |->
                           rms_error(runs[r].x_val, runs[r].y_val,
                                     Reverse(polynomial_fit(runs[r].x_train,
                                                            runs[r].y_train, m_range[k])))],
                       Len(m_range)))}:
          \E Wb \in {Reverse(polynomial_fit(runs[r].x_train, runs[r].y_train, best))}:
              runs' = [runs EXCEPT
                          ![r].report =
                              [degree |-> best,
                               test_error |-> rms_error(runs[r].x_test, runs[r].y_test, Wb)],
                          ![r].pc = "done"]
    /\ UNCHANGED <<pc, callVars, splitVars, dataVars, sweepVars>>

NextRuns ==
    \/ FreshStart
    \/ \E r \in 1..2: RunCell1(r)
    \/ \E r \in 1..2: RunCell3(r)
    \/ \E r \in 1..2: RunCell9(r)

SpecRuns == Init /\ [][NextRuns]_vars

Samples(d) == <<d.x_train, d.y_train, d.x_val, d.y_val, d.x_test, d.y_test>>

\* C10 (as claimed): two runs from a fresh start end with the same train,
\* validation and test samples, inputs and noisy targets, and so with the same
\* selected degree and the same reported test error.
CexC10_FreshRunsGiveSameSamplesAndReport ==
    (pc = "runs" /\ runs[1].pc = "done" /\ runs[2].pc = "done") =>
        /\ Samples(runs[1]) = Samples(runs[2])
        /\ runs[1].report = runs[2].report


Next == NextCalls \/ NextSplit \/ NextSweep \/ NextRuns
Spec == Init /\ [][Next]_vars
====
